---- MODULE Spec2Model ----
(***************************************************************************)
(* Model of rest/app.py of mg-rest-hdf5: the GET handlers of the adjacency *)
(* REST service (GetDetails, GetInteractions, GetValue), the usage/error   *)
(* reporter help_usage and the application/tsv representation output_tsv.  *)
(*                                                                         *)
(* One request is processed at a time (requests share no mutable state).   *)
(* Python values are tagged records: None, a str (sequence of characters)  *)
(* or an int.  The external collaborators (the adjacency reader and the    *)
(* authorization decorator) are nondeterministic choices over small sets.  *)
(***************************************************************************)
EXTENDS Integers, Sequences, FiniteSets, TLC

\* ---------------------------------------------------------------- bounds
\* Longest list of interaction records the reader returns from get_range.
MaxRecords == 2

\* ---------------------------------------------------------- Python values
None == [t |-> "none", s |-> <<>>, i |-> 0]
StrV(chars) == [t |-> "str", s |-> chars, i |-> 0]
IntV(n) == [t |-> "int", s |-> <<>>, i |-> n]

Digits == {"0", "1", "2", "3", "4", "5", "6", "7", "8", "9"}
DigitValue == ("0" :> 0) @@ ("1" :> 1) @@ ("2" :> 2) @@ ("3" :> 3) @@ ("4" :> 4)
              @@ ("5" :> 5) @@ ("6" :> 6) @@ ("7" :> 7) @@ ("8" :> 8) @@ ("9" :> 9)
DigitChar == <<"0", "1", "2", "3", "4", "5", "6", "7", "8", "9">>

SetMin(S) == CHOOSE x \in S : \A y \in S : x <= y
SetMax(S) == CHOOSE x \in S : \A y \in S : x >= y

\* str.strip() as int() applies it to its argument
Strip(chars) ==
    LET idx == {k \in 1..Len(chars) : chars[k] # " "}
    IN  IF idx = {} THEN <<>> ELSE SubSeq(chars, SetMin(idx), SetMax(idx))

DigitsToNat(d) ==
    LET F[k \in 0..Len(d)] == IF k = 0 THEN 0 ELSE F[k - 1] * 10 + DigitValue[d[k]]
    IN  F[Len(d)]

\* Python's int(x): the int on success, otherwise the exception raised.
\* int(None) raises TypeError, int("abc") raises ValueError.
PyInt(v) ==
    IF v.t = "int" THEN [exc |-> "none", val |-> v.i]
    ELSE IF v.t = "none" THEN [exc |-> "TypeError", val |-> 0]
    ELSE LET st == Strip(v.s)
             signed == Len(st) > 0 /\ st[1] \in {"+", "-"}
             body == IF signed THEN Tail(st) ELSE st
         IN  IF Len(body) > 0 /\ \A k \in 1..Len(body) : body[k] \in Digits
             THEN [exc |-> "none",
                   val |-> IF signed /\ st[1] = "-" THEN 0 - DigitsToNat(body)
                           ELSE DigitsToNat(body)]
             ELSE [exc |-> "ValueError", val |-> 0]

RECURSIVE NatToStr(_)
NatToStr(n) == IF n < 10 THEN <<DigitChar[n + 1]>>
               ELSE NatToStr(n \div 10) \o <<DigitChar[(n % 10) + 1]>>

\* Python's str(x)
PyStr(v) ==
    IF v.t = "str" THEN v.s
    ELSE IF v.t = "none" THEN <<"N", "o", "n", "e">>
    ELSE IF v.i < 0 THEN <<"-">> \o NatToStr(0 - v.i) ELSE NatToStr(v.i)

\* The body of a try block "a = int(a); b = int(b); ...": the assignments
\* made before the first failing conversion are kept.
CoerceSeq(vs) ==
    LET F[k \in 0..Len(vs)] ==
            IF k = 0 THEN [vals |-> vs, exc |-> "none"]
            ELSE LET p == F[k - 1]
                     c == PyInt(vs[k])
                 IN  IF p.exc # "none" THEN p
                     ELSE IF c.exc = "none"
                          THEN [vals |-> [p.vals EXCEPT ![k] = IntV(c.val)], exc |-> "none"]
                          ELSE [vals |-> p.vals, exc |-> c.exc]
    IN  F[Len(vs)]

\* sum([x is None for x in params]) and sum([x is not None for x in params])
CountNone(params) == Cardinality({k \in 1..Len(params) : params[k] = None})
CountNotNone(params) == Cardinality({k \in 1..Len(params) : params[k] # None})

\* ------------------------------------------------------------ help_usage
\* keys of the parameters dictionary of help_usage
ParameterSpec == {"file_id", "chrom", "start", "end", "res", "limit_chr",
                  "limit_start", "limit_end", "pos_x", "pos_y", "type"}

EmptyDict == [k \in {} |-> None]
SeqToSet(sq) == {sq[k] : k \in 1..Len(sq)}

help_usage(error_message, status_code, parameters_required, parameters_provided) ==
    [kind |-> "message",
     data |-> [usage_parameters |-> SeqToSet(parameters_required) \cap ParameterSpec,
               status_code |-> status_code,
               has_provided |-> DOMAIN parameters_provided # {},
               provided_parameters |-> parameters_provided,
               has_error |-> error_message # "None",
               error |-> error_message]]

\* an exception that leaves the view function
Raise(exc) == [kind |-> "exception", data |-> exc]
NoResponse == [kind |-> "none", data |-> "none"]

\* -------------------------------------------------------------- inputs
FileIds == {None, StrV(<<"f">>)}
ChrIds == {None, StrV(<<"c", "1">>)}
StartArgs == {None, StrV(<<"1", "0">>), StrV(<<"1", "x">>)}
EndArgs == {None, StrV(<<"2", "0">>), StrV(<<"z">>)}
ResArgs == {None, StrV(<<"1", "0", "0", "0">>), StrV(<<"5", "0", "0">>), StrV(<<"r">>)}
LimitChrArgs == {None, StrV(<<"c", "2">>)}
LimitStartArgs == {None, StrV(<<" ", "5">>), StrV(<<"q">>)}
LimitEndArgs == {None, StrV(<<"9">>), StrV(<<>>)}
PosArgs == {None, StrV(<<"3">>), StrV(<<"-">>)}
Users == {None, StrV(<<"u">>)}
Accepts == {"application/json", "application/tsv"}
Operations == {"details", "range", "point"}

\* the resolutions a dataset may hold (what get_details reports)
ResolutionSets == {{1000}, {500, 1000}}

NoArgs == [file_id |-> None, chr |-> None, start |-> None, end |-> None,
           res |-> None, limit_chr |-> None, limit_start |-> None,
           limit_end |-> None, pos_x |-> None, pos_y |-> None]

ArgsOf(o) ==
    IF o = "details" THEN {[NoArgs EXCEPT !.file_id = f] : f \in FileIds}
    ELSE IF o = "range" THEN
        {[NoArgs EXCEPT !.file_id = f, !.chr = c, !.start = s, !.end = e, !.res = r,
                        !.limit_chr = lc, !.limit_start = ls, !.limit_end = le] :
            f \in FileIds, c \in ChrIds, s \in StartArgs, e \in EndArgs, r \in ResArgs,
            lc \in LimitChrArgs, ls \in LimitStartArgs, le \in LimitEndArgs}
    ELSE
        {[NoArgs EXCEPT !.file_id = f, !.res = r, !.pos_x = x, !.pos_y = y] :
            f \in FileIds, r \in ResArgs, x \in PosArgs, y \in PosArgs}

\* what the reader may return: chromosome ids, interaction records, values
ChromosomeIds == {StrV(<<"c", "1">>), StrV(<<"c", "2">>)}
InteractionRecords ==
    {[chrA |-> StrV(<<"c", "1">>), startA |-> IntV(100),
      chrB |-> StrV(<<"c", "2">>), startB |-> IntV(200), value |-> IntV(5)],
     [chrA |-> IntV(1), startA |-> IntV(150),
      chrB |-> IntV(3), startB |-> IntV(300), value |-> IntV(7)],
     [chrA |-> StrV(<<"X">>), startA |-> IntV(0),
      chrB |-> StrV(<<"X">>), startB |-> IntV(0), value |-> IntV(12)]}
ResultLists == UNION {[1..n -> InteractionRecords] : n \in 0..MaxRecords}
LogLists == {<<>>, <<"out_of_range">>}
CellValues == {0, 7}

\* ---------------------------------------------------------------- state
VARIABLES
    pc,              \* position of the request in its handler
    op,              \* "details" | "range" | "point" (the resource routed to)
    user_id,         \* what the authorized decorator passes: None or a user
    args,            \* request.args: raw query parameters (str or None)
    accept,          \* negotiated media type
    dataset,         \* resolutions the requested file holds (reader's side)
    local,           \* the handler's local variables
    params_required, \* the local params_required, unbound until assigned
    handle,          \* the adjacency handle of this request
    calls,           \* reader operations invoked so far, in order
    h5,              \* what the reader has returned so far
    response,        \* what the handler returned (or the exception it raised)
    rendered         \* what the representation function produced

vars == <<pc, op, user_id, args, accept, dataset, local, params_required, handle, calls,
          h5, response, rendered>>

Unbound == [bound |-> FALSE, names |-> <<>>]
Bound(names) == [bound |-> TRUE, names |-> names]

NoLocals == [file_id |-> None, chr_id |-> None, start |-> None, end |-> None,
             resolution |-> None, limit_chr |-> None, limit_start |-> None,
             limit_end |-> None, pos_x |-> None, pos_y |-> None]
NoHandle == [state |-> "none", resolution |-> None]
NoData == [resolutions |-> {}, results |-> <<>>, log |-> <<>>, value |-> 0,
           chr_a |-> None, chr_b |-> None]
NotRendered == [kind |-> "none", body |-> <<>>]

Init ==
    /\ pc = "idle"
    /\ op = "none"
    /\ user_id = None
    /\ args = NoArgs
    /\ accept = "application/json"
    /\ dataset = {}
    /\ local = NoLocals
    /\ params_required = Unbound
    /\ handle = NoHandle
    /\ calls = <<>>
    /\ h5 = NoData
    /\ response = NoResponse
    /\ rendered = NotRendered

\* A request arrives and is routed to its resource; the authorized decorator
\* has decided user_id.
Request ==
    /\ pc = "idle"
    /\ \E o \in Operations, u \in Users, a \in Accepts :
        /\ op' = o
        /\ user_id' = u
        /\ accept' = a
        /\ \E q \in ArgsOf(o) : args' = q
        /\ \E rs \in ResolutionSets : dataset' = rs
    /\ pc' = "validate"
    /\ UNCHANGED <<local, params_required, handle, calls, h5, response, rendered>>

\* "return x" / an uncaught exception: the handler is left
Return(r) == /\ response' = r
             /\ pc' = IF r.kind = "exception" THEN "done" ELSE "returned"

\* adjacency(user, file_id[, resolution])
Open(res) == /\ handle' = [state |-> "open", resolution |-> res]
             /\ calls' = Append(calls, "open")

\* handle.close()
Close == /\ handle' = [handle EXCEPT !.state = "closed"]
         /\ calls' = Append(calls, "close")

\* ------------------------------------------------------------ GetDetails
\* GetDetails.get up to the first reader call: authorization, extraction
\* and the presence checks.  params_required is assigned only inside the
\* authorized branch, so the final "return help_usage('Forbidden', 403,
\* params_required, {})" reads an unbound local.
GetDetails_validate ==
    /\ pc = "validate" /\ op = "details"
    /\ IF user_id # None
       THEN LET file_id == args.file_id
                required == <<"file_id">>
                params == <<user_id, file_id>>
            IN  /\ local' = [local EXCEPT !.file_id = file_id]
                /\ params_required' = Bound(required)
                /\ IF CountNone(params) = Len(params)
                   THEN Return([kind |-> "usage_test", data |-> "test"])
                   ELSE IF CountNotNone(params) # Len(params)
                   THEN Return(help_usage("MissingParameters", 400, required,
                                          [file_id |-> file_id]))
                   ELSE /\ pc' = "open"
                        /\ UNCHANGED response
       ELSE /\ IF params_required.bound
               THEN Return(help_usage("Forbidden", 403, params_required.names, EmptyDict))
               ELSE Return(Raise("UnboundLocalError"))
            /\ UNCHANGED <<local, params_required>>
    /\ UNCHANGED <<op, user_id, args, accept, dataset, handle, calls, h5, rendered>>

\* hdf5_handle = adjacency(user_id["user_id"], file_id)
GetDetails_open ==
    /\ pc = "open" /\ op = "details"
    /\ Open(None)
    /\ pc' = "get_details"
    /\ UNCHANGED <<op, user_id, args, accept, dataset, local, params_required, h5, response, rendered>>

\* h5_data = hdf5_handle.get_details()
GetDetails_get_details ==
    /\ pc = "get_details" /\ op = "details"
    /\ h5' = [h5 EXCEPT !.resolutions = dataset]
    /\ calls' = Append(calls, "get_details")
    /\ pc' = "close"
    /\ UNCHANGED <<op, user_id, args, accept, dataset, local, params_required, handle, response, rendered>>

\* hdf5_handle.close()
GetDetails_close ==
    /\ pc = "close" /\ op = "details"
    /\ Close
    /\ pc' = "return"
    /\ UNCHANGED <<op, user_id, args, accept, dataset, local, params_required, h5, response, rendered>>

\* return {'_links': ..., 'chromosomes': ..., 'resolutions': ...}
GetDetails_return ==
    /\ pc = "return" /\ op = "details"
    /\ Return([kind |-> "details", data |-> [resolutions |-> h5.resolutions]])
    /\ UNCHANGED <<op, user_id, args, accept, dataset, local, params_required, handle, calls, h5, rendered>>

\* ------------------------------------------------------- GetInteractions
RangeForbiddenParams == <<"file_id", "chr_id", "start", "end", "res",
                          "limit_chr", "limit_start", "limit_end">>
RangeParamsRequired == <<"user_id", "file_id", "chr_id", "start", "end", "res",
                         "limit_chr", "limit_start", "limit_end">>

\* the dictionary echoed by the rejections of GetInteractions.get
RangeProvided(l) ==
    [file_id |-> l.file_id, chr |-> l.chr_id, start |-> l.start, end |-> l.end,
     res |-> l.resolution, limit_chr |-> l.limit_chr,
     limit_start |-> l.limit_start, limit_end |-> l.limit_end]

\* the shorter dictionary echoed when the primary coercion fails
RangeProvidedPrimary(l) ==
    [file_id |-> l.file_id, chr |-> l.chr_id, start |-> l.start, end |-> l.end,
     res |-> l.resolution, limit_chr |-> l.limit_chr]

\* authorization, extraction of the query parameters, presence checks
GetInteractions_validate ==
    /\ pc = "validate" /\ op = "range"
    /\ IF user_id # None
       THEN LET l == [local EXCEPT !.file_id = args.file_id, !.chr_id = args.chr,
                                   !.start = args.start, !.end = args.end,
                                   !.resolution = args.res,
                                   !.limit_chr = args.limit_chr,
                                   !.limit_start = args.limit_start,
                                   !.limit_end = args.limit_end]
                params == <<user_id, l.file_id, l.chr_id, l.start, l.end, l.resolution>>
            IN  /\ local' = l
                /\ params_required' = Bound(RangeParamsRequired)
                /\ IF CountNone(params) = Len(params)
                   THEN Return(help_usage("None", 200, RangeParamsRequired, EmptyDict))
                   ELSE IF CountNotNone(params) # Len(params)
                   THEN Return(help_usage("MissingParameters", 400, RangeParamsRequired,
                                          RangeProvided(l)))
                   ELSE /\ pc' = "coerce"
                        /\ UNCHANGED response
       ELSE /\ Return(help_usage("Forbidden", 403, RangeForbiddenParams, EmptyDict))
            /\ UNCHANGED <<local, params_required>>
    /\ UNCHANGED <<op, user_id, args, accept, dataset, handle, calls, h5, rendered>>

\* try: start = int(start); end = int(end); resolution = int(resolution)
\* except ValueError: return help_usage('IncorrectParameterType', ...)
GetInteractions_coerce ==
    /\ pc = "coerce" /\ op = "range"
    /\ LET c == CoerceSeq(<<local.start, local.end, local.resolution>>)
           l == [local EXCEPT !.start = c.vals[1], !.end = c.vals[2],
                              !.resolution = c.vals[3]]
       IN  /\ local' = l
           /\ IF c.exc = "none" THEN pc' = "open" /\ UNCHANGED response
              ELSE IF c.exc = "ValueError"
              THEN Return(help_usage("IncorrectParameterType", 400,
                                     params_required.names, RangeProvidedPrimary(l)))
              ELSE Return(Raise(c.exc))
    /\ UNCHANGED <<op, user_id, args, accept, dataset, params_required, handle, calls, h5, rendered>>

\* hdf5_handle = adjacency(user_id["user_id"], file_id, resolution)
GetInteractions_open ==
    /\ pc = "open" /\ op = "range"
    /\ Open(local.resolution)
    /\ pc' = "get_details"
    /\ UNCHANGED <<op, user_id, args, accept, dataset, local, params_required, h5, response, rendered>>

\* details = hdf5_handle.get_details()
GetInteractions_get_details ==
    /\ pc = "get_details" /\ op = "range"
    /\ h5' = [h5 EXCEPT !.resolutions = dataset]
    /\ calls' = Append(calls, "get_details")
    /\ pc' = "resolution"
    /\ UNCHANGED <<op, user_id, args, accept, dataset, local, params_required, handle, response, rendered>>

\* if resolution not in details["resolutions"]: return help_usage(...)
GetInteractions_resolution ==
    /\ pc = "resolution" /\ op = "range"
    /\ IF local.resolution.i \notin h5.resolutions
       THEN Return(help_usage("Resolution Not Available", 400,
                              params_required.names, RangeProvided(local)))
       ELSE pc' = "limit" /\ UNCHANGED response
    /\ UNCHANGED <<op, user_id, args, accept, dataset, local, params_required, handle, calls, h5, rendered>>

\* if limit_start is not None or limit_end is not None:
\*     if limit_chr is None: return help_usage('MissingParameters', ...)
\*     try: limit_start = int(limit_start); limit_end = int(limit_end)
\*     except ValueError: return help_usage('IncorrectParameterType', ...)
GetInteractions_limit ==
    /\ pc = "limit" /\ op = "range"
    /\ IF local.limit_start # None \/ local.limit_end # None
       THEN IF local.limit_chr = None
            THEN /\ Return(help_usage("MissingParameters", 400,
                                      params_required.names, RangeProvided(local)))
                 /\ UNCHANGED local
            ELSE LET c == CoerceSeq(<<local.limit_start, local.limit_end>>)
                     l == [local EXCEPT !.limit_start = c.vals[1], !.limit_end = c.vals[2]]
                 IN  /\ local' = l
                     /\ IF c.exc = "none" THEN pc' = "get_range" /\ UNCHANGED response
                        ELSE IF c.exc = "ValueError"
                        THEN Return(help_usage("IncorrectParameterType", 400,
                                               params_required.names, RangeProvided(l)))
                        ELSE Return(Raise(c.exc))
       ELSE pc' = "get_range" /\ UNCHANGED <<local, response>>
    /\ UNCHANGED <<op, user_id, args, accept, dataset, params_required, handle, calls, h5, rendered>>

\* h5_data = hdf5_handle.get_range(chr_id, start, end, limit_chr, limit_start,
\*                                 limit_end, value_url, no_links)
GetInteractions_get_range ==
    /\ pc = "get_range" /\ op = "range"
    /\ \E rs \in ResultLists, lg \in LogLists :
           h5' = [h5 EXCEPT !.results = rs, !.log = lg]
    /\ calls' = Append(calls, "get_range")
    /\ pc' = "close"
    /\ UNCHANGED <<op, user_id, args, accept, dataset, local, params_required, handle, response, rendered>>

\* hdf5_handle.close()
GetInteractions_close ==
    /\ pc = "close" /\ op = "range"
    /\ Close
    /\ pc' = "return"
    /\ UNCHANGED <<op, user_id, args, accept, dataset, local, params_required, h5, response, rendered>>

\* return {'_links': ..., 'resolution': ..., ..., 'values': ..., 'log': ...}
GetInteractions_return ==
    /\ pc = "return" /\ op = "range"
    /\ Return([kind |-> "interactions",
               data |-> [resolution |-> local.resolution, chr |-> local.chr_id,
                         start |-> local.start, end |-> local.end,
                         limit_chr |-> local.limit_chr,
                         limit_start |-> local.limit_start,
                         limit_end |-> local.limit_end,
                         interaction_count |-> Len(h5.results),
                         values |-> h5.results,
                         log |-> h5.log]])
    /\ UNCHANGED <<op, user_id, args, accept, dataset, local, params_required, handle, calls, h5, rendered>>

\* -------------------------------------------------------------- GetValue
PointForbiddenParams == <<"file_id", "res", "pos_x", "pos_y">>
PointParamsRequired == <<"user_id", "file_id", "res", "pos_x", "pos_y">>

\* the dictionary echoed by the rejections of GetValue.get
PointProvided(l) ==
    [file_id |-> l.file_id, resolution |-> l.resolution,
     pos_x |-> l.pos_x, pos_y |-> l.pos_y]

\* authorization, extraction of the query parameters, presence checks
GetValue_validate ==
    /\ pc = "validate" /\ op = "point"
    /\ IF user_id # None
       THEN LET l == [local EXCEPT !.file_id = args.file_id, !.resolution = args.res,
                                   !.pos_x = args.pos_x, !.pos_y = args.pos_y]
                params == <<user_id, l.file_id, l.resolution, l.pos_x, l.pos_y>>
            IN  /\ local' = l
                /\ params_required' = Bound(PointParamsRequired)
                /\ IF CountNone(params) = Len(params)
                   THEN Return(help_usage("None", 200, PointParamsRequired, EmptyDict))
                   ELSE IF CountNotNone(params) # Len(params)
                   THEN Return(help_usage("MissingParameters", 400, PointParamsRequired,
                                          PointProvided(l)))
                   ELSE /\ pc' = "coerce"
                        /\ UNCHANGED response
       ELSE /\ Return(help_usage("Forbidden", 403, PointForbiddenParams, EmptyDict))
            /\ UNCHANGED <<local, params_required>>
    /\ UNCHANGED <<op, user_id, args, accept, dataset, handle, calls, h5, rendered>>

\* try: pos_x = int(pos_x); pos_y = int(pos_y); resolution = int(resolution)
\* except ValueError: return help_usage('IncorrectParameterType', ...)
GetValue_coerce ==
    /\ pc = "coerce" /\ op = "point"
    /\ LET c == CoerceSeq(<<local.pos_x, local.pos_y, local.resolution>>)
           l == [local EXCEPT !.pos_x = c.vals[1], !.pos_y = c.vals[2],
                              !.resolution = c.vals[3]]
       IN  /\ local' = l
           /\ IF c.exc = "none" THEN pc' = "open" /\ UNCHANGED response
              ELSE IF c.exc = "ValueError"
              THEN Return(help_usage("IncorrectParameterType", 400,
                                     params_required.names, PointProvided(l)))
              ELSE Return(Raise(c.exc))
    /\ UNCHANGED <<op, user_id, args, accept, dataset, params_required, handle, calls, h5, rendered>>

\* h5_handle = adjacency(user_id["user_id"], file_id, resolution)
GetValue_open ==
    /\ pc = "open" /\ op = "point"
    /\ Open(local.resolution)
    /\ pc' = "get_value"
    /\ UNCHANGED <<op, user_id, args, accept, dataset, local, params_required, h5, response, rendered>>

\* value = h5_handle.get_value(pos_x, pos_y)
GetValue_get_value ==
    /\ pc = "get_value" /\ op = "point"
    /\ \E v \in CellValues : h5' = [h5 EXCEPT !.value = v]
    /\ calls' = Append(calls, "get_value")
    /\ pc' = "chromosomes"
    /\ UNCHANGED <<op, user_id, args, accept, dataset, local, params_required, handle, response, rendered>>

\* chr_a_id = h5_handle.get_chromosome_from_array_index(pos_x)
\* chr_b_id = h5_handle.get_chromosome_from_array_index(pos_y)
GetValue_chromosomes ==
    /\ pc = "chromosomes" /\ op = "point"
    /\ \E a \in ChromosomeIds, b \in ChromosomeIds :
           h5' = [h5 EXCEPT !.chr_a = a, !.chr_b = b]
    /\ calls' = calls \o <<"get_chromosome_from_array_index",
                           "get_chromosome_from_array_index">>
    /\ pc' = "close"
    /\ UNCHANGED <<op, user_id, args, accept, dataset, local, params_required, handle, response, rendered>>

\* h5_handle.close()
GetValue_close ==
    /\ pc = "close" /\ op = "point"
    /\ Close
    /\ pc' = "return"
    /\ UNCHANGED <<op, user_id, args, accept, dataset, local, params_required, h5, response, rendered>>

\* return {"_links": ..., "chrA": ..., "chrB": ..., ..., "value": int(value)}
GetValue_return ==
    /\ pc = "return" /\ op = "point"
    /\ Return([kind |-> "value",
               data |-> [chrA |-> h5.chr_a, chrB |-> h5.chr_b,
                         resolution |-> local.resolution,
                         pos_x |-> local.pos_x, pos_y |-> local.pos_y,
                         value |-> PyInt(IntV(h5.value)).val]])
    /\ UNCHANGED <<op, user_id, args, accept, dataset, local, params_required, handle, calls, h5, rendered>>

\* ------------------------------------------------------------ output_tsv
TAB == <<"\t">>
NEWLINE == <<"\n">>

\* TsvLine with the two start columns after the two chromosome columns
TsvLine_columns_regrouped(value) ==
    PyStr(value.chrA) \o TAB \o PyStr(value.chrB) \o TAB
    \o PyStr(value.startA) \o TAB \o PyStr(value.startB) \o TAB
    \o PyStr(value.value) \o NEWLINE

\* one iteration of the loop of output_tsv
TsvLine(value) ==
    PyStr(value.chrA) \o TAB \o PyStr(value.startA) \o TAB
    \o PyStr(value.chrB) \o TAB \o PyStr(value.startB) \o TAB
    \o PyStr(value.value) \o NEWLINE

\* outstr after "for value in data['values']: outstr += ..."
output_tsv(values) ==
    LET F[k \in 0..Len(values)] ==
            IF k = 0 THEN <<>> ELSE F[k - 1] \o TsvLine(values[k])
    IN  F[Len(values)]

\* The representation chosen by the Accept header is applied to what the
\* handler returned.  output_tsv reads data["values"] only when the endpoint
\* is "values" (GetInteractions) and returns nothing for any other endpoint.
Render ==
    /\ pc = "returned"
    /\ IF accept = "application/tsv"
       THEN IF op = "range"
            THEN IF response.kind = "interactions"
                 THEN rendered' = [kind |-> "tsv", body |-> output_tsv(response.data.values)]
                 ELSE rendered' = [kind |-> "exception", body |-> <<"KeyError">>]
            ELSE rendered' = [kind |-> "undefined", body |-> <<>>]
       ELSE rendered' = [kind |-> "json", body |-> <<>>]
    /\ pc' = "done"
    /\ UNCHANGED <<op, user_id, args, accept, dataset, local, params_required, handle, calls,
                   h5, response>>

\* The request is over; its state is discarded.
Finish ==
    /\ pc = "done"
    /\ pc' = "idle"
    /\ op' = "none"
    /\ user_id' = None
    /\ args' = NoArgs
    /\ accept' = "application/json"
    /\ dataset' = {}
    /\ local' = NoLocals
    /\ params_required' = Unbound
    /\ handle' = NoHandle
    /\ calls' = <<>>
    /\ h5' = NoData
    /\ response' = NoResponse
    /\ rendered' = NotRendered

Next ==
    \/ Request
    \/ GetDetails_validate
    \/ GetDetails_open
    \/ GetDetails_get_details
    \/ GetDetails_close
    \/ GetDetails_return
    \/ GetInteractions_validate
    \/ GetInteractions_coerce
    \/ GetInteractions_open
    \/ GetInteractions_get_details
    \/ GetInteractions_resolution
    \/ GetInteractions_limit
    \/ GetInteractions_get_range
    \/ GetInteractions_close
    \/ GetInteractions_return
    \/ GetValue_validate
    \/ GetValue_coerce
    \/ GetValue_open
    \/ GetValue_get_value
    \/ GetValue_chromosomes
    \/ GetValue_close
    \/ GetValue_return
    \/ Render
    \/ Finish

Spec == Init /\ [][Next]_vars

\* ================================================================ claims
Count(sq, x) == Cardinality({k \in 1..Len(sq) : sq[k] = x})
Left == pc \in {"returned", "done"}
Authorized == user_id # None
IsMessage(status, error) ==
    /\ response.kind = "message"
    /\ response.data.status_code = status
    /\ response.data.error = error
Present(names) == {k \in names : args[k] # None}
IsIntArg(k) == args[k] # None /\ PyInt(args[k]).exc = "none"
LimitNames == {"limit_chr", "limit_start", "limit_end"}
RequiredOf(o) ==
    IF o = "details" THEN {"file_id"}
    ELSE IF o = "range" THEN {"file_id", "chr", "start", "end", "res"}
    ELSE {"file_id", "res", "pos_x", "pos_y"}
NumericOf(o) ==
    IF o = "details" THEN {}
    ELSE IF o = "range" THEN {"start", "end", "res"}
    ELSE {"pos_x", "pos_y", "res"}
\* every required parameter is present and every primary numeric one is an integer
PrimaryValid == /\ Present(RequiredOf(op)) = RequiredOf(op)
                /\ \A k \in NumericOf(op) : IsIntArg(k)

\* C1: when a details, range or point request is left (a result or a
\* rejection is returned), the dataset handle it opened has been closed:
\* it was opened at most once, closed as often as opened, and is not open.
C1_HandleClosedOnEveryExit ==
    Left => /\ Count(calls, "open") <= 1
            /\ Count(calls, "close") = Count(calls, "open")
            /\ handle.state # "open"

\* C1, the case at hand: a range request was rejected after opening a handle
C1_RejectedAfterOpen ==
    Left /\ op = "range" /\ response.kind = "message" /\ Count(calls, "open") = 1

\* C2: a request whose authorization decision is a denial ends, for every
\* operation and whatever the query parameters, in a 403 'Forbidden'
\* rejection, and no reader operation was invoked.
C2_DenialIsForbidden ==
    (Left /\ ~Authorized) => /\ IsMessage(403, "Forbidden")
                             /\ calls = <<>>

\* C3: an authorized request that supplies none of the operation's query
\* parameters gets the 200 usage payload of help_usage with no 'error'
\* field, never a 400 rejection.
C3_NoParametersIsDiscovery ==
    (Left /\ Authorized /\ args = NoArgs) =>
        /\ response.kind = "message"
        /\ response.data.status_code = 200
        /\ ~response.data.has_error

\* C4: an authorized range request with valid primary parameters at a
\* supported resolution that supplies exactly one or two of limit_chr,
\* limit_start, limit_end is rejected with 400 'MissingParameters', and
\* get_range is never called for it.
C4_PartialLimitTriple ==
    (op = "range" /\ Authorized /\ PrimaryValid
        /\ PyInt(args.res).val \in dataset
        /\ Cardinality(Present(LimitNames)) \in {1, 2}) =>
            /\ Count(calls, "get_range") = 0
            /\ Left => IsMessage(400, "MissingParameters")

\* C5: every request, whatever the authorization outcome and the query
\* parameters, ends with a defined outcome (an envelope, a usage payload or
\* a structured rejection); no exception leaves the handler.
C5_NoUnhandledFailure ==
    Left => response.kind # "exception"

\* ---- C6: the rejection conditions of a range request, in the stated order
K1 == ~Authorized
K2 == Present(RequiredOf("range")) = {}
K3 == Present(RequiredOf("range")) # RequiredOf("range")
K4 == \E k \in {"start", "end", "res"} : args[k] # None /\ ~IsIntArg(k)
K5 == IsIntArg("res") /\ PyInt(args.res).val \notin dataset
K6 == Cardinality(Present(LimitNames)) \in {1, 2}
K7 == \E k \in {"limit_start", "limit_end"} : args[k] # None /\ ~IsIntArg(k)
ConditionsHolding == Cardinality({k \in 1..7 : <<K1, K2, K3, K4, K5, K6, K7>>[k]})
ExpectedOutcome ==
    IF K1 THEN "Forbidden"
    ELSE IF K2 THEN "usage"
    ELSE IF K3 THEN "MissingParameters"
    ELSE IF K4 THEN "IncorrectParameterType"
    ELSE IF K5 THEN "Resolution Not Available"
    ELSE IF K6 THEN "MissingParameters"
    ELSE IF K7 THEN "IncorrectParameterType"
    ELSE "result"
Outcome ==
    IF response.kind = "message"
    THEN IF response.data.has_error THEN response.data.error ELSE "usage"
    ELSE IF response.kind = "exception" THEN "exception"
    ELSE "result"

\* C6: when several rejection conditions of a range request hold at once,
\* the outcome is that of the lowest-numbered check: authorization, all
\* absent -> usage, some absent -> MissingParameters, primary coercion
\* failure, resolution not supported, limit-triple completeness, limit-triple
\* coercion failure.
C6_LowestCheckWins ==
    (Left /\ op = "range" /\ ConditionsHolding >= 2) => Outcome = ExpectedOutcome

\* C7: a range or point query whose primary parameters are present and
\* type-check, at a resolution the dataset does not hold, is rejected with
\* 400 'Resolution Not Available' naming the attempted resolution, and
\* neither get_range nor get_value is performed; the resolution rejection is
\* only ever produced for primary parameters that type-checked.
C7_ResolutionGate ==
    /\ (op \in {"range", "point"} /\ Authorized /\ PrimaryValid
            /\ PyInt(args.res).val \notin dataset) =>
        /\ Count(calls, "get_range") = 0
        /\ Count(calls, "get_value") = 0
        /\ Left => /\ IsMessage(400, "Resolution Not Available")
                   /\ "res" \in DOMAIN response.data.provided_parameters
                   /\ PyInt(response.data.provided_parameters.res) = PyInt(args.res)
    /\ (Left /\ response.kind = "message"
            /\ response.data.error = "Resolution Not Available") => PrimaryValid

\* the query parameters the caller supplied, under the names the caller used
RawInput == [k \in Present(DOMAIN args) |-> args[k]]

\* C8: an authorized request supplying some but not all required
\* parameters is rejected with 400 'MissingParameters' whose
\* provided_parameters is exactly the raw input: the supplied names, their
\* raw string values, and nothing for a parameter that was not supplied.
C8_MissingEchoesRawInput ==
    (Left /\ Authorized /\ Present(RequiredOf(op)) # {}
          /\ Present(RequiredOf(op)) # RequiredOf(op)) =>
        /\ IsMessage(400, "MissingParameters")
        /\ DOMAIN response.data.provided_parameters = DOMAIN RawInput
        /\ response.data.provided_parameters = RawInput

\* the numeric parameters a request carries
NumericSupplied == NumericOf(op) \cup
    (IF op = "range" THEN Present({"limit_start", "limit_end"}) ELSE {})
\* complete but for the type of a numeric parameter
CompleteButType ==
    /\ op \in {"range", "point"}
    /\ Present(RequiredOf(op)) = RequiredOf(op)
    /\ op = "range" => Cardinality(Present(LimitNames)) \in {0, 3}
    /\ \E k \in NumericSupplied : ~IsIntArg(k)
    /\ (op = "range" /\ PrimaryValid) => PyInt(args.res).val \in dataset

\* C9: a non-integer string in a numeric parameter of an otherwise complete
\* request is rejected with 400 'IncorrectParameterType', and every echoed
\* parameter value is the raw string received, none an already-coerced int.
C9_TypeErrorEchoesRaw ==
    (Left /\ Authorized /\ CompleteButType) =>
        /\ IsMessage(400, "IncorrectParameterType")
        /\ \A k \in DOMAIN response.data.provided_parameters :
               response.data.provided_parameters[k].t # "int"

\* ---- C10: reading a tab-separated text back
Positions(text, ch) == {k \in 1..Len(text) : text[k] = ch}
NthOf(P, n) == CHOOSE q \in P : Cardinality({r \in P : r < q}) = n - 1
\* the n-th piece of a text whose pieces each end with ch
TerminatedPiece(text, ch, n) ==
    LET P == Positions(text, ch)
        from == IF n = 1 THEN 1 ELSE NthOf(P, n - 1) + 1
    IN  SubSeq(text, from, NthOf(P, n) - 1)
\* the pieces of a text that ch separates
SeparatedPieces(text, ch) ==
    LET P == Positions(text, ch)
        n == Cardinality(P) + 1
    IN  [k \in 1..n |->
            SubSeq(text,
                   IF k = 1 THEN 1 ELSE NthOf(P, k - 1) + 1,
                   IF k = n THEN Len(text) ELSE NthOf(P, k) - 1)]
\* a column shows a record field: the same text, or the same number read back
Shows(column, v) ==
    IF v.t = "int" THEN PyInt(StrV(column)) = [exc |-> "none", val |-> v.i]
    ELSE column = v.s

\* C10: the application/tsv rendering of a range envelope has exactly one
\* newline-terminated line per interaction record, in the order of the
\* envelope's values; each line is the five tab-separated columns chrA,
\* startA, chrB, startB, value in that order; no records give the empty text.
C10_TsvRendering ==
    (pc = "done" /\ rendered.kind = "tsv") =>
        LET text == rendered.body
            values == response.data.values
        IN  /\ Cardinality(Positions(text, "\n")) = Len(values)
            /\ text # <<>> => text[Len(text)] = "\n"
            /\ values = <<>> => text = <<>>
            /\ \A n \in 1..Len(values) :
                LET columns == SeparatedPieces(TerminatedPiece(text, "\n", n), "\t")
                IN  /\ Len(columns) = 5
                    /\ Shows(columns[1], values[n].chrA)
                    /\ Shows(columns[2], values[n].startA)
                    /\ Shows(columns[3], values[n].chrB)
                    /\ Shows(columns[4], values[n].startB)
                    /\ Shows(columns[5], values[n].value)

\* C10, the case at hand: two different records were rendered as tsv
C10_TwoRecordsRendered ==
    /\ pc = "done" /\ rendered.kind = "tsv"
    /\ Len(response.data.values) = 2
    /\ response.data.values[1] # response.data.values[2]
    /\ response.data.values[1].chrA.t = "int"
    /\ response.data.values[2].chrA.t = "str"

\* C11: in a range request a handle is open at the requested resolution only
\* once that resolution is known to be one the dataset holds: no state has
\* a handle open at a resolution outside the dataset's resolutions.
C11_NoHandleAtUnsupportedResolution ==
    (op = "range" /\ handle.state = "open") =>
        /\ handle.resolution.t = "int"
        /\ handle.resolution.i \in dataset

\* the limiting region has been validated: all three members are present
\* and limit_start, limit_end have been coerced to integers
LimitValidated ==
    /\ local.limit_chr # None
    /\ local.limit_start.t = "int"
    /\ local.limit_end.t = "int"

\* C12: in a range request that supplies any member of the limiting region,
\* no reader operation (open, get_details, get_range) is invoked before all
\* three members are known to be present and limit_start, limit_end to be
\* integers; with only one or two members the request is rejected with no
\* reader call at all.
C12_LimitValidatedBeforeReader ==
    (op = "range" /\ Present(LimitNames) # {}) =>
        /\ calls # <<>> => LimitValidated
        /\ Cardinality(Present(LimitNames)) \in {1, 2} =>
               /\ calls = <<>>
               /\ Left => response.kind = "message"

====
